---- MODULE Spec2Model ----
(***************************************************************************)
(* Model of the KITE custodial SDK transport layer: request() of           *)
(* src/src/client.ts, the RequestConfig that the KiteClient constructor of *)
(* src/src/index.ts builds, and the error types of errors.ts               *)
(* (src/unnamed/part_001).                                                 *)
(*                                                                         *)
(* JavaScript values are records of one uniform shape, texts are strings,  *)
(* JSON.parse and JSON.stringify are computed character by character.      *)
(***************************************************************************)
EXTENDS Integers, Sequences, FiniteSets, TLC

(***************************************************************************)
(* JavaScript values.  t is the type tag; b, n, s carry a boolean, number  *)
(* or string; kv carries the members of an object (key, value) or the      *)
(* elements of an array (key "").                                          *)
(***************************************************************************)
JUndef == [t |-> "undefined", b |-> FALSE, n |-> 0, s |-> "", kv |-> <<>>]

JNull == [t |-> "null", b |-> FALSE, n |-> 0, s |-> "", kv |-> <<>>]

JBool(x) == [t |-> "boolean", b |-> x, n |-> 0, s |-> "", kv |-> <<>>]

JNum(x) == [t |-> "number", b |-> FALSE, n |-> x, s |-> "", kv |-> <<>>]

JBigInt(x) == [t |-> "bigint", b |-> FALSE, n |-> x, s |-> "", kv |-> <<>>]

JStr(x) == [t |-> "string", b |-> FALSE, n |-> 0, s |-> x, kv |-> <<>>]

JArr(items) == [t |-> "array", b |-> FALSE, n |-> 0, s |-> "",
                kv |-> [i \in 1..Len(items) |-> [k |-> "", v |-> items[i]]]]

JObj(members) == [t |-> "object", b |-> FALSE, n |-> 0, s |-> "", kv |-> members]

KV(key, val) == [k |-> key, v |-> val]

EmptyObject == JObj(<<>>)

\* ToBoolean: what `x && ...`, `x || ...` and `!x` test.
Truthy(x) ==
    CASE x.t = "undefined" -> FALSE
      [] x.t = "null" -> FALSE
      [] x.t = "boolean" -> x.b
      [] x.t = "number" -> x.n # 0
      [] x.t = "bigint" -> x.n # 0
      [] x.t = "string" -> x.s # ""
      [] OTHER -> TRUE

\* What `x ?? y` tests.
Nullish(x) == x.t \in {"undefined", "null"}

\* typeof x === 'object' (true of null, of arrays and of objects).
TypeofObject(x) == x.t \in {"null", "array", "object"}

\* `key in x` for an object or array x and a non-index, non-builtin key.
HasProperty(x, key) ==
    /\ x.t = "object"
    /\ \E i \in 1..Len(x.kv) : x.kv[i].k = key

\* x[key] for a non-nullish x and a non-index, non-builtin key.
GetProperty(x, key) ==
    IF HasProperty(x, key)
    THEN x.kv[CHOOSE i \in 1..Len(x.kv) : x.kv[i].k = key].v
    ELSE JUndef

\* [[Set]] of an own data property: a new key is appended, an old one keeps its place.
SetProperty(members, key, val) ==
    IF \E i \in 1..Len(members) : members[i].k = key
    THEN [i \in 1..Len(members) |->
            IF members[i].k = key THEN KV(key, val) ELSE members[i]]
    ELSE Append(members, KV(key, val))

(***************************************************************************)
(* JSON.parse over the JSON texts made of objects, arrays, strings without *)
(* escapes, integers, true, false, null and blanks.  A result is           *)
(* [ok, v, i]: whether a value was read, the value, and the position after *)
(* it.                                                                     *)
(***************************************************************************)
Ch(text, i) == IF i >= 1 /\ i <= Len(text) THEN SubSeq(text, i, i) ELSE ""

StartsWith(text, i, word) ==
    /\ i + Len(word) - 1 <= Len(text)
    /\ SubSeq(text, i, i + Len(word) - 1) = word

Digits == {"0", "1", "2", "3", "4", "5", "6", "7", "8", "9"}

DigitValue(c) ==
    CASE c = "0" -> 0 [] c = "1" -> 1 [] c = "2" -> 2 [] c = "3" -> 3
      [] c = "4" -> 4 [] c = "5" -> 5 [] c = "6" -> 6 [] c = "7" -> 7
      [] c = "8" -> 8 [] c = "9" -> 9

ParseFail == [ok |-> FALSE, v |-> JUndef, i |-> 0]

ParseOk(val, next) == [ok |-> TRUE, v |-> val, i |-> next]

RECURSIVE SkipBlanks(_, _)
SkipBlanks(text, i) ==
    IF Ch(text, i) = " " THEN SkipBlanks(text, i + 1) ELSE i

\* The position of the closing quote of the string whose first character is at i, or 0.
RECURSIVE StringEnd(_, _)
StringEnd(text, i) ==
    CASE i > Len(text) -> 0
      [] Ch(text, i) = "\"" -> i
      [] Ch(text, i) = "\\" -> 0
      [] OTHER -> StringEnd(text, i + 1)

ParseString(text, i) ==
    LET e == StringEnd(text, i + 1) IN
    IF Ch(text, i) = "\"" /\ e > 0
    THEN ParseOk(JStr(SubSeq(text, i + 1, e - 1)), e + 1)
    ELSE ParseFail

\* The digits from i on: [n, i] with the number read so far and the position after them.
RECURSIVE ReadDigits(_, _, _)
ReadDigits(text, i, acc) ==
    IF Ch(text, i) \in Digits
    THEN ReadDigits(text, i + 1, acc * 10 + DigitValue(Ch(text, i)))
    ELSE [n |-> acc, i |-> i]

ParseNumber(text, i) ==
    LET neg == Ch(text, i) = "-"
        first == IF neg THEN i + 1 ELSE i
        d == ReadDigits(text, first, 0)
    IN  CASE Ch(text, first) \notin Digits -> ParseFail
          [] Ch(text, first) = "0" /\ d.i > first + 1 -> ParseFail
          [] Ch(text, d.i) \in {".", "e", "E"} -> ParseFail
          [] OTHER -> ParseOk(JNum(IF neg THEN 0 - d.n ELSE d.n), d.i)

RECURSIVE ParseValue(_, _)
RECURSIVE ParseElements(_, _, _)
RECURSIVE ParseMembers(_, _, _)

\* The elements of an array after "[" or ",": i is at the next element.
ParseElements(text, i, items) ==
    LET r == ParseValue(text, i)
        j == SkipBlanks(text, r.i)
    IN  CASE ~r.ok -> ParseFail
          [] Ch(text, j) = "," -> ParseElements(text, j + 1, Append(items, r.v))
          [] Ch(text, j) = "]" -> ParseOk(JArr(Append(items, r.v)), j + 1)
          [] OTHER -> ParseFail

\* The members of an object after "{" or ",": i is at the next key.
ParseMembers(text, i, members) ==
    LET ks == SkipBlanks(text, i)
        key == ParseString(text, ks)
        colon == SkipBlanks(text, key.i)
        r == ParseValue(text, colon + 1)
        j == SkipBlanks(text, r.i)
        got == SetProperty(members, key.v.s, r.v)
    IN  CASE ~key.ok -> ParseFail
          [] Ch(text, colon) # ":" -> ParseFail
          [] ~r.ok -> ParseFail
          [] Ch(text, j) = "," -> ParseMembers(text, j + 1, got)
          [] Ch(text, j) = "}" -> ParseOk(JObj(got), j + 1)
          [] OTHER -> ParseFail

ParseValue(text, i0) ==
    LET i == SkipBlanks(text, i0)
        c == Ch(text, i)
    IN  CASE c = "{" ->
              IF Ch(text, SkipBlanks(text, i + 1)) = "}"
              THEN ParseOk(EmptyObject, SkipBlanks(text, i + 1) + 1)
              ELSE ParseMembers(text, i + 1, <<>>)
          [] c = "[" ->
              IF Ch(text, SkipBlanks(text, i + 1)) = "]"
              THEN ParseOk(JArr(<<>>), SkipBlanks(text, i + 1) + 1)
              ELSE ParseElements(text, i + 1, <<>>)
          [] c = "\"" -> ParseString(text, i)
          [] c = "-" \/ c \in Digits -> ParseNumber(text, i)
          [] StartsWith(text, i, "null") -> ParseOk(JNull, i + 4)
          [] StartsWith(text, i, "true") -> ParseOk(JBool(TRUE), i + 4)
          [] StartsWith(text, i, "false") -> ParseOk(JBool(FALSE), i + 5)
          [] OTHER -> ParseFail

\* JSON.parse(text): [ok |-> FALSE] stands for the SyntaxError it throws.
JsonParse(text) ==
    LET r == ParseValue(text, 1) IN
    IF r.ok /\ SkipBlanks(text, r.i) = Len(text) + 1 THEN r ELSE ParseFail

\* safeJsonParse with a catch block that hands back the text it could not parse.
safeJsonParseText(text) ==
    LET r == JsonParse(text) IN IF r.ok THEN r.v ELSE JStr(text)

\* safeJsonParse: the parsed value, or null when JSON.parse throws.
safeJsonParse(text) ==
    LET r == JsonParse(text) IN IF r.ok THEN r.v ELSE JNull

(***************************************************************************)
(* JSON.stringify over the same values.  A result is [ok, def, s]: ok is   *)
(* FALSE when it throws a TypeError (a BigInt), def is FALSE when it       *)
(* returns undefined, s is the text.                                       *)
(***************************************************************************)
StringifyThrows == [ok |-> FALSE, def |-> FALSE, s |-> ""]

StringifyText(text) == [ok |-> TRUE, def |-> TRUE, s |-> text]

StringifyUndefined == [ok |-> TRUE, def |-> FALSE, s |-> ""]

RECURSIVE Stringify(_)
RECURSIVE StringifyItems(_, _, _, _)

\* The members or elements kv[i..] of an object or array, acc holding the text so far.
StringifyItems(kv, i, isArray, acc) ==
    IF i > Len(kv) THEN StringifyText(acc)
    ELSE LET r == Stringify(kv[i].v)
             sep == IF acc = "" THEN "" ELSE ","
         IN  CASE ~r.ok -> StringifyThrows
               [] isArray ->
                   StringifyItems(kv, i + 1, isArray,
                       acc \o sep \o (IF r.def THEN r.s ELSE "null"))
               [] ~r.def -> StringifyItems(kv, i + 1, isArray, acc)
               [] OTHER ->
                   StringifyItems(kv, i + 1, isArray,
                       acc \o sep \o "\"" \o kv[i].k \o "\":" \o r.s)

Stringify(x) ==
    CASE x.t = "undefined" -> StringifyUndefined
      [] x.t = "null" -> StringifyText("null")
      [] x.t = "boolean" -> StringifyText(IF x.b THEN "true" ELSE "false")
      [] x.t = "number" -> StringifyText(ToString(x.n))
      [] x.t = "bigint" -> StringifyThrows
      [] x.t = "string" -> StringifyText("\"" \o x.s \o "\"")
      [] x.t = "array" ->
          LET r == StringifyItems(x.kv, 1, TRUE, "") IN
          IF r.ok THEN StringifyText("[" \o r.s \o "]") ELSE r
      [] x.t = "object" ->
          LET r == StringifyItems(x.kv, 1, FALSE, "") IN
          IF r.ok THEN StringifyText("{" \o r.s \o "}") ELSE r

(***************************************************************************)
(* The client configuration and its logging sink.                          *)
(***************************************************************************)
LogLevels == {"debug", "info", "warn", "error"}

LOG_LEVELS(level) ==
    CASE level = "debug" -> 0
      [] level = "info" -> 1
      [] level = "warn" -> 2
      [] level = "error" -> 3

DefaultTimeout == 30000

ShortTimeout == 50

\* The ASCII white space that String.prototype.trim and the conversion of a string
\* to a number strip: space, tab, line feed, vertical tab (the character itself:
\* it has no escape), form feed, carriage return.
WhiteSpace == {" ", "\t", "\n", "", "\f", "\r"}

\* String.prototype.trim: the text between its first and last non-blank.
Trim(text) ==
    LET inked == {i \in 1..Len(text) : Ch(text, i) \notin WhiteSpace} IN
    IF inked = {} THEN ""
    ELSE SubSeq(text, CHOOSE i \in inked : \A j \in inked : i <= j,
                      CHOOSE i \in inked : \A j \in inked : i >= j)

\* The SdkConfiguration objects a client is constructed from: logLevel and timeout
\* are optional ("" and -1 stand for an absent field); a baseUrl or an apiKey may
\* be blank.
SdkConfigurations ==
    [baseUrl : {" http://kite.test/ ", "   "}, apiKey : {" key-1 ", ""},
     logLevel : LogLevels \cup {""}, timeout : {-1, ShortTimeout}]

\* The constructor throws Error(message) and no client exists.
ConstructorThrows(message) ==
    [error |-> message, baseUrl |-> "", apiKey |-> "", timeout |-> 0, logLevel |-> ""]

\* The KiteClient constructor: it throws for a baseUrl or apiKey that is blank
\* after trim(), and else stores this RequestConfig (its log closure is Sink below).
KiteClient(sdk) ==
    IF Trim(sdk.baseUrl) = "" THEN ConstructorThrows("KiteClient: baseUrl is required")
    ELSE IF Trim(sdk.apiKey) = "" THEN ConstructorThrows("KiteClient: apiKey is required")
    ELSE [error |-> "",
          baseUrl |-> Trim(sdk.baseUrl),
          apiKey |-> Trim(sdk.apiKey),
          timeout |-> IF sdk.timeout = -1 THEN DefaultTimeout ELSE sdk.timeout,
          logLevel |-> IF sdk.logLevel = "" THEN "info" ELSE sdk.logLevel]

\* The configs of the clients that were constructed.
Clients == {cfg \in {KiteClient(sdk) : sdk \in SdkConfigurations} : cfg.error = ""}

\* config.log(level, message): the console after the call, given the console before it.
Sink(cfg, out, level, message) ==
    IF LOG_LEVELS(level) <= LOG_LEVELS(cfg.logLevel)
    THEN Append(out, [method |-> IF level = "debug" THEN "log" ELSE level,
                      line |-> "[KiteSDK] " \o message])
    ELSE out

(***************************************************************************)
(* Errors.                                                                 *)
(***************************************************************************)
NoError == [name |-> "", message |-> ""]

\* code is "" where the error has no code.
NoOutcome ==
    [kind |-> "pending", value |-> JUndef, statusCode |-> JUndef, message |-> "",
     code |-> "", raw |-> JUndef, cause |-> NoError]

\* return value
Returned(val) == [NoOutcome EXCEPT !.kind = "return", !.value = val]

\* A KiteApiError that keeps the status and the message and drops the payload.
KiteApiErrorWithoutRaw(statusCode, message, raw) ==
    [NoOutcome EXCEPT !.kind = "KiteApiError", !.statusCode = statusCode,
                      !.message = message]

\* throw new KiteApiError({ statusCode, message, raw })
KiteApiError(statusCode, message, raw) ==
    [NoOutcome EXCEPT !.kind = "KiteApiError", !.statusCode = statusCode,
                      !.message = message, !.raw = raw]

\* throw new KiteNetworkError(message, cause)
KiteNetworkError(message, cause) ==
    [NoOutcome EXCEPT !.kind = "KiteNetworkError", !.message = message, !.cause = cause]

\* An error that is neither: it leaves request as it was thrown.
Uncaught(err) == [NoOutcome EXCEPT !.kind = err.name, !.message = err.message, !.cause = err]

\* The numbers of the model are integers of at most Big in size: a larger one is
\* kept as Big, which every comparison of the program (with 400, 401, 403, 404,
\* 500) tells from the numbers around them as well as the number itself.
Big == 1000000000

NaN == [nan |-> TRUE, n |-> 0]

Num(x) == [nan |-> FALSE, n |-> IF x > Big THEN Big ELSE IF x < 0 - Big THEN 0 - Big ELSE x]

\* x * y for x, y in 0..Big, kept at Big when it is larger.
Times(x, y) == IF y # 0 /\ x >= Big \div y THEN (IF x = 0 THEN 0 ELSE Big) ELSE x * y

HexDigits == Digits \cup {"a", "b", "c", "d", "e", "f", "A", "B", "C", "D", "E", "F"}

HexValue(ch) ==
    CASE ch \in Digits -> DigitValue(ch)
      [] ch \in {"a", "A"} -> 10 [] ch \in {"b", "B"} -> 11 [] ch \in {"c", "C"} -> 12
      [] ch \in {"d", "D"} -> 13 [] ch \in {"e", "E"} -> 14 [] ch \in {"f", "F"} -> 15

\* The value of the digits text[i..j] in the given base.
RECURSIVE Magnitude(_, _, _, _, _)
Magnitude(text, i, j, base, acc) ==
    IF i > j THEN acc
    ELSE Magnitude(text, i + 1, j, base,
                   IF Times(acc, base) >= Big THEN Big
                   ELSE acc * base + HexValue(Ch(text, i)))

\* The last index of the run of characters of the set chars that starts at i
\* (i - 1 for an empty run).
RunEnd(text, i, chars) ==
    CHOOSE j \in (i - 1)..Len(text) :
        /\ \A k \in i..j : Ch(text, k) \in chars
        /\ Ch(text, j + 1) \notin chars

Zeros(n) == SubSeq("0000000000", 1, n)

\* The digit i of the decimal fraction 0.a: 0 after its last digit.
FractionDigit(a, i) == IF i <= Len(a) THEN DigitValue(Ch(a, i)) ELSE 0

\* 0.a <= 0.b for two decimal fractions given by their digits.
FractionAtMost(a, b) ==
    LET longer == IF Len(a) >= Len(b) THEN Len(a) ELSE Len(b)
        differ == {i \in 1..longer : FractionDigit(a, i) # FractionDigit(b, i)}
    IN  \/ differ = {}
        \/ LET first == CHOOSE i \in differ : \A j \in differ : i <= j
           IN  FractionDigit(a, first) < FractionDigit(b, first)

\* Half of the decimal fraction 0.d, from its digit i on with the carry of the
\* digits before it.
RECURSIVE HalveFrom(_, _, _)
HalveFrom(d, i, carry) ==
    IF i > Len(d) THEN (IF carry = 1 THEN "5" ELSE "")
    ELSE ToString((carry * 10 + DigitValue(Ch(d, i))) \div 2)
            \o HalveFrom(d, i + 1, (carry * 10 + DigitValue(Ch(d, i))) % 2)

\* The digits of the decimal fraction 2^-j, for j >= 1.
RECURSIVE HalfPower(_)
HalfPower(j) == IF j = 1 THEN "5" ELSE HalveFrom(HalfPower(j - 1), 1, 0)

\* The digits of 1 - 0.d, for a fraction whose last digit is not 0.
RECURSIVE ComplementFrom(_, _)
ComplementFrom(d, i) ==
    IF i > Len(d) THEN ""
    ELSE ToString((IF i = Len(d) THEN 10 ELSE 9) - DigitValue(Ch(d, i)))
            \o ComplementFrom(d, i + 1)

\* The exponent of the power of two at or below the integer x, 1 <= x < 2^30;
\* -1 for x = 0 (a Number below 1 that can round to 1 is at least 1/2).
Binade(x) == IF x = 0 THEN -1 ELSE CHOOSE k \in 0..29 : 2^k <= x /\ x < 2^(k + 1)

\* Half of the distance from the integer x to the Numbers next to it on the side
\* of the Numbers of its binade, as the digits of a decimal fraction: a Number has
\* 53 bits.
HalfGap(x) == HalfPower(53 - Binade(x))

\* The digits after the 323 zeros of the decimal fraction 2^-1075, half of the
\* smallest Number above 0: what is at most that is the Number 0.
HalfMinValue ==
    "2470328229206232720882843964341106861825299013071623822127928412" \o
    "5033775363510437593264991818081799618989828234772285886546332835" \o
    "5177969898199387398005390939063150356595155702263922908583924491" \o
    "0518443593180284993653615250031937045767824921936562366986365848" \o
    "0757001585769269903706311928279558551332927834338409351978015531" \o
    "2465972635795746227664652728272200563740064854999770965994704540" \o
    "2082816622623785739345073633900796776193057750674017632467360096" \o
    "8951340535537458516661134223766678604162159680461914467291840300" \o
    "5300575308490487653917113865916462395249126236538818796362393732" \o
    "8042389101867234849766823508986338858792562830275599565752445550" \o
    "7255189313690836254779186948667994968324049705821028513185451396" \o
    "213837722826145437693412532098591327667236328125"

\* The number of zeros that the digits d start with.
LeadingZeros(d) == RunEnd(d, 1, {"0"})

\* The index of the last digit of d that is not 0 (0 when there is none).
LastNonZero(d) ==
    LET inked == {i \in 1..Len(d) : Ch(d, i) # "0"} IN
    IF inked = {} THEN 0 ELSE CHOOSE i \in inked : \A j \in inked : i >= j

\* The Number nearest to 0.digits * 10^point, rounded down to an integer (rounded
\* up in size where negative is TRUE); digits starts and ends with a digit that
\* is not 0.  The decimal is first rounded to the nearest Number, ties to even:
\* it becomes the integer next to it when it is within half a gap of it.
RoundedDecimal(digits, point, negative) ==
    IF point > 10 THEN Num(IF negative THEN 0 - Big ELSE Big)
    ELSE LET whole == IF point <= 0 THEN 0
                      ELSE IF point > Len(digits)
                      THEN Magnitude(digits \o Zeros(point - Len(digits)), 1, point, 10, 0)
                      ELSE Magnitude(digits, 1, point, 10, 0)
             fraction == IF point >= 0 /\ point < Len(digits)
                         THEN SubSeq(digits, point + 1, Len(digits)) ELSE ""
             small == point < 0
         IN  IF whole >= Big THEN Num(IF negative THEN 0 - Big ELSE Big)
             ELSE IF fraction = "" /\ ~small THEN Num(IF negative THEN 0 - whole ELSE whole)
             ELSE IF ~negative
             THEN IF /\ ~small
                     /\ StartsWith(fraction, 1, "9999999")
                     /\ FractionAtMost(ComplementFrom(HalfGap(whole), 1), fraction)
                  THEN Num(whole + 1) ELSE Num(whole)
             ELSE IF whole > 0
             THEN IF /\ StartsWith(fraction, 1, "0000000")
                     /\ FractionAtMost(fraction, HalfGap(whole))
                  THEN Num(0 - whole) ELSE Num(0 - whole - 1)
             ELSE IF \/ 0 - point > 323
                     \/ 0 - point = 323 /\ FractionAtMost(digits, HalfMinValue)
                  THEN Num(0) ELSE Num(-1)

\* StrDecimalLiteral without its sign: digits, an optional fraction, an optional
\* exponent.
DecimalLiteral(text, negative) ==
    LET intEnd == RunEnd(text, 1, Digits)
        hasDot == Ch(text, intEnd + 1) = "."
        fracEnd == IF hasDot THEN RunEnd(text, intEnd + 2, Digits) ELSE intEnd
        fracLen == IF hasDot THEN fracEnd - intEnd - 1 ELSE 0
        hasExp == Ch(text, fracEnd + 1) \in {"e", "E"}
        expSign == Ch(text, fracEnd + 2) \in {"+", "-"}
        expFrom == IF expSign THEN fracEnd + 3 ELSE fracEnd + 2
        expEnd == IF hasExp THEN RunEnd(text, expFrom, Digits) ELSE fracEnd
        exponent == IF hasExp THEN Magnitude(text, expFrom, expEnd, 10, 0) ELSE 0
        all == SubSeq(text, 1, intEnd)
                    \o (IF fracLen > 0 THEN SubSeq(text, intEnd + 2, fracEnd) ELSE "")
        first == LeadingZeros(all) + 1
        last == LastNonZero(all)
        point == intEnd - (first - 1)
                    + (IF hasExp /\ Ch(text, fracEnd + 2) = "-" THEN 0 - exponent
                       ELSE exponent)
    IN  IF intEnd + fracLen = 0 \/ (hasExp /\ expEnd < expFrom) \/ expEnd # Len(text)
        THEN NaN
        ELSE IF last = 0 THEN Num(0)
        ELSE RoundedDecimal(SubSeq(all, first, last), point, negative)

\* A literal with the prefix 0x, 0o or 0b: the digits after it in that base.
PrefixedLiteral(text, digits, base) ==
    IF Len(text) > 2 /\ RunEnd(text, 3, digits) = Len(text)
    THEN Num(Magnitude(text, 3, Len(text), base, 0))
    ELSE NaN

\* StringToNumber, rounded down to an integer: white space is stripped, the empty
\* string is 0, and what is no numeric literal is NaN.
StringToNumber(text) ==
    LET t == Trim(text)
        signed == Ch(t, 1) \in {"+", "-"}
        negative == Ch(t, 1) = "-"
        rest == IF signed THEN SubSeq(t, 2, Len(t)) ELSE t
    IN  CASE t = "" -> Num(0)
          [] StartsWith(t, 1, "0x") \/ StartsWith(t, 1, "0X") ->
                PrefixedLiteral(t, HexDigits, 16)
          [] StartsWith(t, 1, "0o") \/ StartsWith(t, 1, "0O") ->
                PrefixedLiteral(t, {"0", "1", "2", "3", "4", "5", "6", "7"}, 8)
          [] StartsWith(t, 1, "0b") \/ StartsWith(t, 1, "0B") ->
                PrefixedLiteral(t, {"0", "1"}, 2)
          [] rest = "Infinity" -> Num(IF negative THEN 0 - Big ELSE Big)
          [] OTHER -> DecimalLiteral(rest, negative)

\* ToString: what a template literal and Array.prototype.join make of a value.
RECURSIVE JsString(_)
RECURSIVE JoinFrom(_, _)
JsString(v) ==
    CASE v.t = "undefined" -> "undefined"
      [] v.t = "null" -> "null"
      [] v.t = "boolean" -> IF v.b THEN "true" ELSE "false"
      [] v.t \in {"number", "bigint"} -> ToString(v.n)
      [] v.t = "string" -> v.s
      [] v.t = "array" -> JoinFrom(v.kv, 1)
      [] OTHER -> "[object Object]"

\* The elements from the i-th on, joined by commas: null and undefined give "".
JoinFrom(items, i) ==
    IF i > Len(items) THEN ""
    ELSE (IF Nullish(items[i].v) THEN "" ELSE JsString(items[i].v))
            \o (IF i < Len(items) THEN "," ELSE "")
            \o JoinFrom(items, i + 1)

\* The number that >= and < compare a value as (rounded down to an integer): a
\* string by StringToNumber, an array or object by the number of its string, a
\* BigInt by its value.
ToNumber(v) ==
    CASE v.t \in {"number", "bigint"} -> Num(v.n)
      [] v.t = "boolean" -> Num(IF v.b THEN 1 ELSE 0)
      [] v.t = "null" -> Num(0)
      [] v.t = "undefined" -> NaN
      [] v.t = "string" -> StringToNumber(v.s)
      [] OTHER -> StringToNumber(JsString(v))

\* v >= k and v < k for a number k: FALSE when v converts to NaN.
GreaterOrEqual(v, k) == ~ToNumber(v).nan /\ ToNumber(v).n >= k

LessThan(v, k) == ~ToNumber(v).nan /\ ToNumber(v).n < k

\* v === k for a number k: no conversion.
StrictEquals(v, k) == v = JNum(k)

\* A client-error test that has no upper limit.
isClientErrorFrom400(err) == GreaterOrEqual(err.statusCode, 400)

\* statusCode >= 400 && statusCode < 500
isClientError(err) ==
    GreaterOrEqual(err.statusCode, 400) /\ LessThan(err.statusCode, 500)

\* statusCode >= 500
isServerError(err) == GreaterOrEqual(err.statusCode, 500)

\* statusCode === 401 || statusCode === 403
isAuthError(err) == StrictEquals(err.statusCode, 401) \/ StrictEquals(err.statusCode, 403)

\* statusCode === 404
isNotFound(err) == StrictEquals(err.statusCode, 404)

BigIntTypeError == [name |-> "TypeError", message |-> "Do not know how to serialize a BigInt"]

AbortError == [name |-> "AbortError", message |-> "This operation was aborted"]

\* What fetch() or response.text() reject with when the transport fails by itself.
TransportFailures ==
    {[name |-> "TypeError", message |-> "fetch failed"],
     [name |-> "Error", message |-> ""]}

(***************************************************************************)
(* The pieces of request().                                                *)
(***************************************************************************)
\* config.baseUrl.replace(/\/$/, '') + path
Url(cfg, path) ==
    (IF Ch(cfg.baseUrl, Len(cfg.baseUrl)) = "/"
     THEN SubSeq(cfg.baseUrl, 1, Len(cfg.baseUrl) - 1)
     ELSE cfg.baseUrl) \o path

\* A test that serializes the body for every method.
SendsBodyWithAnyMethod(method, body) == body.t # "undefined" /\ body.t # "null"

\* Whether request() serializes the body into init.body.
SendsBody(method, body) == body.t # "undefined" /\ body.t # "null" /\ method # "GET"

\* The RequestInit handed to fetch; body is the result of JSON.stringify.
RequestInit(cfg, method, path, body) ==
    LET str == IF SendsBody(method, body) THEN Stringify(body) ELSE StringifyUndefined IN
    [url |-> Url(cfg, path), method |-> method,
     contentType |-> "application/json", apiKey |-> cfg.apiKey,
     hasBody |-> str.def, body |-> str.s]

\* A success test that lets the 3xx statuses through.
ResponseOkBelow400(status) == status >= 200 /\ status < 400

\* Response.ok of the Fetch standard.
ResponseOk(status) == status >= 200 /\ status <= 299

TimeoutMessage(cfg) == "Request timed out after " \o ToString(cfg.timeout) \o "ms"

\* A message that does not tell an abort from another failure.
NetworkMessageOfError(cfg, err) ==
    IF err.message # "" THEN err.message ELSE "Network request failed"

\* The message of the catch block for the error err.
NetworkMessage(cfg, err) ==
    IF err.name = "AbortError" THEN TimeoutMessage(cfg)
    ELSE IF err.message # "" THEN err.message ELSE "Network request failed"

\* A message that takes the error member whenever it is a string, also an empty one.
HttpErrorMessageAnyString(data, status, statusText) ==
    LET e == IF Truthy(data) THEN GetProperty(data, "error") ELSE JUndef IN
    IF Truthy(data) /\ e.t = "string" THEN e.s
    ELSE IF statusText # "" THEN statusText
    ELSE "Request failed with status " \o ToString(status)

\* The message of a non-2xx response.
HttpErrorMessage(data, status, statusText) ==
    LET e == IF Truthy(data) THEN GetProperty(data, "error") ELSE JUndef IN
    IF Truthy(data) /\ e.t = "string" /\ Truthy(e) THEN e.s
    ELSE IF statusText # "" THEN statusText
    ELSE "Request failed with status " \o ToString(status)

\* The message of a 2xx response that declares failure.
DeclaredErrorMessage(data) ==
    LET e == GetProperty(data, "error") IN
    IF e.t = "string" THEN e.s ELSE "Request failed"

\* A failure test that also wants an error text in the envelope.
DeclaresFailureWithError(data) ==
    /\ Truthy(data)
    /\ GetProperty(data, "success") = JBool(FALSE)
    /\ Truthy(GetProperty(data, "error"))

\* data && data.success === false
DeclaresFailure(data) ==
    /\ Truthy(data)
    /\ GetProperty(data, "success") = JBool(FALSE)

\* A statusCode that ignores the envelope.
DeclaredStatusHttp(data, status) == JNum(status)

\* The statusCode of the error for a 2xx response that declares failure.
DeclaredStatus(data, status) ==
    IF Nullish(GetProperty(data, "status")) THEN JNum(status) ELSE GetProperty(data, "status")

\* Unwrapping with `data.data || data` in place of `data.data ?? data`.
UnwrapTruthy(data) ==
    IF Truthy(data) /\ TypeofObject(data) /\ HasProperty(data, "data")
    THEN IF Truthy(GetProperty(data, "data")) THEN GetProperty(data, "data") ELSE data
    ELSE IF Nullish(data) THEN EmptyObject ELSE data

\* Unwrapping that hands back an empty object when there is no data field.
UnwrapDataOrEmpty(data) ==
    IF Truthy(data) /\ TypeofObject(data) /\ HasProperty(data, "data")
    THEN IF Nullish(GetProperty(data, "data")) THEN data ELSE GetProperty(data, "data")
    ELSE EmptyObject

\* An unwrapping that returns what was parsed, without the empty object for null.
UnwrapWithoutDefault(data) ==
    IF Truthy(data) /\ TypeofObject(data) /\ HasProperty(data, "data")
    THEN IF Nullish(GetProperty(data, "data")) THEN data ELSE GetProperty(data, "data")
    ELSE data

\* The value returned for a genuine success.
Unwrap(data) ==
    IF Truthy(data) /\ TypeofObject(data) /\ HasProperty(data, "data")
    THEN IF Nullish(GetProperty(data, "data")) THEN data ELSE GetProperty(data, "data")
    ELSE IF Nullish(data) THEN EmptyObject ELSE data

WarnLine(status, path, message) == ToString(status) \o " " \o path \o ": " \o message

\* Lines 73-102: what request() does with a response whose body text was read and
\* parsed to data: [outcome, warn] with the warn-level message it logs ("" for none).
Normalize(status, statusText, text, data, path) ==
    CASE ~ResponseOk(status) ->
            LET message == HttpErrorMessage(data, status, statusText) IN
            [outcome |-> KiteApiError(JNum(status), message,
                                      IF Nullish(data) THEN JStr(text) ELSE data),
             warn |-> WarnLine(status, path, message)]
      [] DeclaresFailure(data) ->
            LET message == DeclaredErrorMessage(data) IN
            [outcome |-> KiteApiError(DeclaredStatus(data, status), message, data),
             warn |-> WarnLine(status, path, message)]
      [] OTHER -> [outcome |-> Returned(Unwrap(data)), warn |-> ""]

\* The object healthCheck returns when request gave it null or undefined.
UnknownHealth ==
    JObj(<<KV("status", JStr("unknown")), KV("service", JStr("kite-custody-orchestrator"))>>)

\* What healthCheck returns for the value data that request resolved with.
healthCheck(data) == IF Nullish(data) THEN UnknownHealth ELSE data

(***************************************************************************)
(* Inputs.                                                                 *)
(***************************************************************************)
\* The calls of request() a client holds locals for.
NumCalls == 2

Calls == 1..NumCalls

\* The call that the specification Spec follows from start to end.
MainCalls == {1}

Methods == {"GET", "POST"}

Paths == {"/health", "/api/transactions/gas-prices"}

GasPricesBody ==
    JObj(<<KV("rpcUrl", JStr("http://rpc.test")), KV("transactionType", JUndef),
           KV("transaction", JObj(<<KV("to", JStr("0xabc")), KV("value", JNum(1))>>))>>)

\* The same request with the value given as a BigInt, as web3 libraries give it.
BigIntBody ==
    JObj(<<KV("rpcUrl", JStr("http://rpc.test")), KV("transactionType", JNum(2)),
           KV("transaction", JObj(<<KV("to", JStr("0xabc")), KV("value", JBigInt(1))>>))>>)

Bodies == {JUndef, JNull, GasPricesBody, BigIntBody}

Statuses == {200, 299, 300, 404, 500}

StatusTexts == {"", "Not Found"}

EnvelopeTexts ==
    {"{\"success\":true,\"status\":200,\"data\":null}",
     "{\"success\":true,\"status\":200,\"data\":false}",
     "{\"success\":true,\"status\":200,\"data\":0}",
     "{\"success\":true,\"status\":200,\"data\":\"\"}",
     "{\"success\":true,\"status\":200,\"data\":[1,{\"a\":null}]}",
     "{\"success\":true,\"status\":200,\"data\":{\"walletId\":\"w1\",\"data\":{\"n\":7}}}",
     "{\"success\":true,\"status\":200}"}

FailureTexts ==
    {"{\"success\":false,\"status\":404,\"error\":\"Wallet not found\"}",
     "{\"success\":false}",
     "{\"success\":false,\"status\":null,\"error\":\"\"}",
     "{\"success\":false,\"status\":0,\"error\":7}",
     "{\"success\":false,\"status\":\"422\",\"data\":{\"reason\":\"nonce too low\"}}"}

BareTexts ==
    {"{}",
     "{\"walletId\":\"w1\",\"address\":\"0xabc\",\"tags\":[]}",
     "{\"status\":\"ok\",\"service\":\"kite\"}",
     "{\"error\":\"Invalid API key\"}",
     "{\"error\":\"\"}",
     "{\"error\":5,\"status\":418}",
     "{\"data\":null}",
     "{\"data\":{\"a\":1}}",
     "{\"success\":0}",
     "{\"success\":\"false\",\"data\":1}"}

ScalarTexts == {"null", "0", "false", "\"ok\"", "[1,2]", " 12 "}

MalformedTexts == {"not json{", "", "{\"success\":false", "<html>502</html>"}

ResponseTexts == EnvelopeTexts \cup FailureTexts \cup BareTexts \cup ScalarTexts \cup MalformedTexts

(***************************************************************************)
(* State.  One client; each call c of request() has its own locals.        *)
(***************************************************************************)
VARIABLES
    config,     \* the RequestConfig of the client
    console,    \* what the sink wrote to the console, in order
    pc,         \* pc[c]: "idle", "fetching", "reading", "settled" (the awaits), "done"
    args,       \* args[c]: method, path, body of the call
    timer,      \* timer[c]: "none", "pending", "fired", "cleared"
    aborted,    \* aborted[c]: controller.signal.aborted
    sent,       \* sent[c]: the RequestInits handed to fetch, in order
    response,   \* response[c]: received, status, statusText
    bodyText,   \* bodyText[c]: read, text: the text response.text() resolved with
    logs,       \* logs[c]: the calls of config.log made by the call, in order
    outcome,    \* outcome[c]: how the call ended
    trace,      \* trace[c]: the steps of the call in the order the code takes them
    classified, \* classified[c]: what the predicates of the thrown KiteApiError answered
    invoked,    \* invoked[c]: the KiteClient method that made the call, and its argument
    settled     \* settled[c]: what request() settled with, for the method awaiting it

vars == <<config, console, pc, args, timer, aborted, sent, response, bodyText, logs, outcome,
          trace, classified, invoked, settled>>

\* request() called as it is, by no method of KiteClient.
NotInvoked == [name |-> "", arg |-> JUndef]

\* What a caller has made of the error of a call: handled is TRUE once handleError
\* ran on it, asked holds the predicates that were called, and each predicate has
\* its answer (FALSE until it is asked).
NotClassified ==
    [handled |-> FALSE, asked |-> {}, isClientError |-> FALSE, isServerError |-> FALSE,
     isAuthError |-> FALSE, isNotFound |-> FALSE]

NoArgs == [method |-> "", path |-> "", body |-> JUndef]

NoResponse == [received |-> FALSE, status |-> 0, statusText |-> ""]

NoText == [read |-> FALSE, text |-> ""]

Init ==
    /\ config \in Clients
    /\ console = <<>>
    /\ pc = [c \in Calls |-> "idle"]
    /\ args = [c \in Calls |-> NoArgs]
    /\ timer = [c \in Calls |-> "none"]
    /\ aborted = [c \in Calls |-> FALSE]
    /\ sent = [c \in Calls |-> <<>>]
    /\ response = [c \in Calls |-> NoResponse]
    /\ bodyText = [c \in Calls |-> NoText]
    /\ logs = [c \in Calls |-> <<>>]
    /\ outcome = [c \in Calls |-> NoOutcome]
    /\ trace = [c \in Calls |-> <<>>]
    /\ classified = [c \in Calls |-> NotClassified]
    /\ invoked = [c \in Calls |-> NotInvoked]
    /\ settled = [c \in Calls |-> NoOutcome]

\* The steps of call c given, appended to its trace.
Steps(c, steps) == trace' = [trace EXCEPT ![c] = @ \o steps]

\* config.log(level, message) made by call c.
Log(c, level, message) ==
    /\ logs' = [logs EXCEPT ![c] = Append(@, [level |-> level, message |-> message])]
    /\ console' = Sink(config, console, level, message)

\* clearTimeout(timeoutId): a pending timer is cancelled, a fired one stays fired.
ClearTimeout(c) ==
    timer' = [timer EXCEPT ![c] = IF @ = "pending" THEN "cleared" ELSE @]

\* request() of call c settles with result.  Where the call is request() by
\* itself (name is ""), that is how the call ended; where the method name of
\* KiteClient made it, the method awaits it and is resumed in a later turn.
Settle(c, name, result) ==
    IF name = ""
    THEN /\ outcome' = [outcome EXCEPT ![c] = result]
         /\ pc' = [pc EXCEPT ![c] = "done"]
         /\ UNCHANGED settled
    ELSE /\ settled' = [settled EXCEPT ![c] = result]
         /\ pc' = [pc EXCEPT ![c] = "settled"]
         /\ UNCHANGED outcome

\* Lines 33-58: from the call to the first await.  JSON.stringify is outside the try
\* block, so what it throws leaves request() as it is, after the timer was started.
Request(c, method, path, body) ==
    /\ pc[c] = "idle"
    /\ args' = [args EXCEPT ![c] = [method |-> method, path |-> path, body |-> body]]
    /\ timer' = [timer EXCEPT ![c] = "pending"]
    /\ IF SendsBody(method, body) /\ ~Stringify(body).ok
       THEN /\ Settle(c, invoked'[c].name, Uncaught(BigIntTypeError))
            /\ Steps(c, <<"setTimeout", "throw">>)
            /\ UNCHANGED <<sent, logs, console>>
       ELSE /\ Log(c, "debug", method \o " " \o Url(config, path))
            /\ sent' = [sent EXCEPT ![c] = Append(@, RequestInit(config, method, path, body))]
            /\ pc' = [pc EXCEPT ![c] = "fetching"]
            /\ Steps(c, <<"setTimeout", "log", "fetch">>)
            /\ UNCHANGED <<outcome, settled>>
    /\ UNCHANGED <<config, aborted, response, bodyText, classified>>

\* A catch block that sends the request once more before it gives up.
CatchRetry(c, err) ==
    IF Len(sent[c]) < 2
    THEN /\ sent' = [sent EXCEPT ![c] = Append(@, @[1])]
         /\ pc' = [pc EXCEPT ![c] = "fetching"]
         /\ Steps(c, <<"fetch">>)
         /\ UNCHANGED <<config, console, args, timer, aborted, response, bodyText,
                        logs, outcome, classified, invoked, settled>>
    ELSE /\ ClearTimeout(c)
         /\ Log(c, "error", NetworkMessage(config, err))
         /\ Settle(c, invoked[c].name, KiteNetworkError(NetworkMessage(config, err), err))
         /\ Steps(c, <<"clearTimeout", "log", "throw">>)
         /\ UNCHANGED <<config, args, aborted, sent, response, bodyText, classified, invoked>>

\* A catch block that throws without logging.
CatchSilent(c, err) ==
    /\ ClearTimeout(c)
    /\ Settle(c, invoked[c].name, KiteNetworkError(NetworkMessage(config, err), err))
    /\ Steps(c, <<"clearTimeout", "throw">>)
    /\ UNCHANGED <<config, console, args, aborted, sent, response, bodyText, logs,
                   classified, invoked>>

\* A catch block whose message counts the lines the client has logged so far.
CatchCounting(c, err) ==
    /\ ClearTimeout(c)
    /\ Log(c, "error", NetworkMessage(config, err))
    /\ Settle(c, invoked[c].name,
              KiteNetworkError(NetworkMessage(config, err) \o " #"
                                   \o ToString(Len(console)), err))
    /\ Steps(c, <<"clearTimeout", "log", "throw">>)
    /\ UNCHANGED <<config, args, aborted, sent, response, bodyText, classified, invoked>>

\* Lines 60-68: the catch block, entered with the error err.
Catch(c, err) ==
    /\ ClearTimeout(c)
    /\ Log(c, "error", NetworkMessage(config, err))
    /\ Settle(c, invoked[c].name, KiteNetworkError(NetworkMessage(config, err), err))
    /\ Steps(c, <<"clearTimeout", "log", "throw">>)
    /\ UNCHANGED <<config, args, aborted, sent, response, bodyText, classified, invoked>>

\* Line 58: fetch resolves with a response; line 59 starts reading its body.
FetchResolve(c, status, statusText) ==
    /\ pc[c] = "fetching"
    /\ ~aborted[c]
    /\ response' = [response EXCEPT ![c] =
                        [received |-> TRUE, status |-> status, statusText |-> statusText]]
    /\ pc' = [pc EXCEPT ![c] = "reading"]
    /\ Steps(c, <<"text">>)
    /\ UNCHANGED <<config, console, args, timer, aborted, sent, bodyText, logs, outcome,
                   classified, invoked, settled>>

\* Line 58: fetch rejects by itself.
FetchReject(c, err) ==
    /\ pc[c] = "fetching"
    /\ ~aborted[c]
    /\ Catch(c, err)

\* Lines 59, 70-102: the body text arrives; the rest of request() runs.
TextResolve(c, text) ==
    /\ pc[c] = "reading"
    /\ ~aborted[c]
    /\ bodyText' = [bodyText EXCEPT ![c] = [read |-> TRUE, text |-> text]]
    /\ ClearTimeout(c)
    /\ \E data \in {safeJsonParse(text)} :
       \E r \in {Normalize(response[c].status, response[c].statusText, text, data,
                            args[c].path)} :
            /\ Settle(c, invoked[c].name, r.outcome)
            /\ IF r.warn # ""
               THEN /\ Log(c, "warn", r.warn)
                    /\ Steps(c, <<"clearTimeout", "log", "throw">>)
               ELSE /\ UNCHANGED <<logs, console>>
                    /\ Steps(c, <<"clearTimeout", "return">>)
    /\ UNCHANGED <<config, args, aborted, sent, response, classified, invoked>>

\* Line 59: reading the body fails by itself.
TextReject(c, err) ==
    /\ pc[c] = "reading"
    /\ ~aborted[c]
    /\ Catch(c, err)

\* A timer callback that does not abort the exchange.
TimerFireNoAbort(c) ==
    /\ timer[c] = "pending"
    /\ timer' = [timer EXCEPT ![c] = "fired"]
    /\ Steps(c, <<"abort">>)
    /\ UNCHANGED <<config, console, pc, args, aborted, sent, response, bodyText, logs,
                   outcome, classified, invoked, settled>>

\* A timer callback that aborts through one controller shared by all the calls.
TimerFireShared(c) ==
    /\ timer[c] = "pending"
    /\ timer' = [timer EXCEPT ![c] = "fired"]
    /\ aborted' = [d \in Calls |-> TRUE]
    /\ Steps(c, <<"abort">>)
    /\ UNCHANGED <<config, console, pc, args, sent, response, bodyText, logs, outcome,
                   classified, invoked, settled>>

\* Line 35: the timer callback runs controller.abort().
TimerFire(c) ==
    /\ timer[c] = "pending"
    /\ timer' = [timer EXCEPT ![c] = "fired"]
    /\ aborted' = [aborted EXCEPT ![c] = TRUE]
    /\ Steps(c, <<"abort">>)
    /\ UNCHANGED <<config, console, pc, args, sent, response, bodyText, logs, outcome,
                   classified, invoked, settled>>

\* Lines 58-59 under an aborted signal: the pending fetch or body read rejects
\* with an AbortError.
AbortReject(c) ==
    /\ pc[c] \in {"fetching", "reading"}
    /\ aborted[c]
    /\ Catch(c, AbortError)

Next ==
    \E c \in MainCalls :
        \/ \E method \in Methods, path \in Paths, body \in Bodies :
                UNCHANGED invoked /\ Request(c, method, path, body)
        \/ \E status \in Statuses, statusText \in StatusTexts :
                FetchResolve(c, status, statusText)
        \/ \E err \in TransportFailures : FetchReject(c, err)
        \/ \E text \in ResponseTexts : TextResolve(c, text)
        \/ \E err \in TransportFailures : TextReject(c, err)
        \/ TimerFire(c)
        \/ AbortReject(c)

Spec == Init /\ [][Next]_vars

(***************************************************************************)
(* Several calls in flight on one client (KiteClient.req gives every call   *)
(* the same config).  The calls are numbered in the order they are made.   *)
(***************************************************************************)
ConcRequests ==
    {[method |-> "GET", path |-> "/health", body |-> JUndef],
     [method |-> "POST", path |-> "/api/transactions/gas-prices", body |-> GasPricesBody]}

ConcStatuses == {200, 404}

ConcTexts ==
    {"{\"success\":true,\"status\":200,\"data\":{\"walletId\":\"w1\",\"data\":{\"n\":7}}}",
     "{\"success\":false,\"status\":404,\"error\":\"Wallet not found\"}",
     "<html>502</html>"}

ConcFailures == TransportFailures

ConcInit ==
    /\ Init
    /\ config = KiteClient([baseUrl |-> " http://kite.test/ ", apiKey |-> " key-1 ",
                            logLevel |-> "", timeout |-> ShortTimeout])

ConcNext ==
    \E c \in Calls :
        \/ /\ \A d \in Calls : d < c => pc[d] # "idle"
           /\ \E r \in ConcRequests :
                    UNCHANGED invoked /\ Request(c, r.method, r.path, r.body)
        \/ \E status \in ConcStatuses : FetchResolve(c, status, "Not Found")
        \/ \E err \in ConcFailures : FetchReject(c, err)
        \/ \E text \in ConcTexts : TextResolve(c, text)
        \/ \E err \in ConcFailures : TextReject(c, err)
        \/ TimerFire(c)
        \/ AbortReject(c)

ConcSpec == ConcInit /\ [][ConcNext]_vars

(***************************************************************************)
(* The predicates of KiteApiError, applied to constructed errors.          *)
(***************************************************************************)
\* The status codes an error is constructed with: HTTP statuses, and what an
\* envelope gave as its status member (client.ts:92 passes it on as it is).
StatusCodes ==
    {JNum(n) : n \in {200, 399, 400, 401, 403, 404, 499, 500}}
        \cup {JStr("404"), JStr(" 404"), JStr("4e2"), JStr("4xx"), JArr(<<JNum(404)>>)}

\* What the message, code and raw of the errors are drawn from.
ErrorDetails ==
    {[message |-> "Wallet not found", code |-> "", raw |-> JUndef],
     [message |-> "Unauthorized", code |-> "E_AUTH", raw |-> JStr("denied")]}

\* new KiteApiError({ statusCode, message, code, raw }) for the details above.
KiteApiErrors ==
    {[KiteApiError(sc, d.message, d.raw) EXCEPT !.code = d.code] :
        sc \in StatusCodes, d \in ErrorDetails}

\* The errors a caller can hold: the KiteApiErrors, a KiteNetworkError and two
\* errors that are neither, one of them without a message.
CaughtErrors ==
    KiteApiErrors \cup {KiteNetworkError("fetch failed", [name |-> "TypeError",
                                                          message |-> "fetch failed"]),
                        Uncaught(BigIntTypeError),
                        Uncaught([name |-> "Error", message |-> ""])}

\* Every call has thrown an error, which its caller holds.
ErrorInit ==
    /\ config = KiteClient([baseUrl |-> "http://kite.test", apiKey |-> "key-1",
                            logLevel |-> "", timeout |-> ShortTimeout])
    /\ console = <<>>
    /\ pc = [c \in Calls |-> "done"]
    /\ args = [c \in Calls |-> NoArgs]
    /\ timer = [c \in Calls |-> "cleared"]
    /\ aborted = [c \in Calls |-> FALSE]
    /\ sent = [c \in Calls |-> <<>>]
    /\ response = [c \in Calls |-> NoResponse]
    /\ bodyText = [c \in Calls |-> NoText]
    /\ logs = [c \in Calls |-> <<>>]
    /\ outcome \in [Calls -> CaughtErrors]
    /\ trace = [c \in Calls |-> <<>>]
    /\ classified = [c \in Calls |-> NotClassified]
    /\ invoked = [c \in Calls |-> NotInvoked]
    /\ settled = [c \in Calls |-> NoOutcome]

Predicates == {"isClientError", "isServerError", "isAuthError", "isNotFound"}

\* The caller calls each of the four predicates of the KiteApiError of call c.
Classify(c) ==
    /\ pc[c] = "done"
    /\ outcome[c].kind = "KiteApiError"
    /\ classified[c].asked # Predicates
    /\ classified' = [classified EXCEPT ![c] =
                          [handled |-> @.handled,
                           asked |-> Predicates,
                           isClientError |-> isClientError(outcome[c]),
                           isServerError |-> isServerError(outcome[c]),
                           isAuthError |-> isAuthError(outcome[c]),
                           isNotFound |-> isNotFound(outcome[c])]]
    /\ UNCHANGED <<config, console, pc, args, timer, aborted, sent, response, bodyText,
                   logs, outcome, trace, invoked, settled>>

\* The marks the test script puts before its lines, in JavaScript's escape
\* notation (the module text is ASCII): cross mark, warning sign, check mark.
LevelPrefix(level) ==
    CASE level = "error" -> "\\u274C"
      [] level = "warn" -> "\\u26A0\\uFE0F"
      [] OTHER -> "\\u2705"

\* log(level, msg) of the test script: the console after it, given the console out.
ScriptLog(out, level, msg) ==
    Append(out, [method |-> "log",
                 line |-> LevelPrefix(level) \o " [" \o level \o "] " \o msg])

\* Where the condition holds, the console out after log('warn', msg); else out.
WarnIf(condition, out, msg) == IF condition THEN ScriptLog(out, "warn", msg) ELSE out

\* handleError(context, err) of the test script on the error call c threw.
handleError(c, context) ==
    /\ pc[c] = "done"
    /\ outcome[c].kind \notin {"pending", "return"}
    /\ ~classified[c].handled
    /\ IF outcome[c].kind = "KiteApiError"
       THEN /\ console' =
                    WarnIf(isNotFound(outcome[c]),
                           WarnIf(isAuthError(outcome[c]),
                                  ScriptLog(console, "error",
                                            context \o ": API error "
                                                \o JsString(outcome[c].statusCode)
                                                \o " - " \o outcome[c].message),
                                  "Check KITE_API_KEY"),
                           "Resource not found")
            /\ classified' = [classified EXCEPT ![c] =
                                  [@ EXCEPT !.handled = TRUE,
                                            !.asked = @ \cup {"isAuthError", "isNotFound"},
                                            !.isAuthError = isAuthError(outcome[c]),
                                            !.isNotFound = isNotFound(outcome[c])]]
       ELSE /\ console' =
                    ScriptLog(console, "error",
                              IF outcome[c].kind = "KiteNetworkError"
                              THEN context \o ": Network error - " \o outcome[c].message
                              ELSE context \o ": "
                                    \o (IF outcome[c].message # "" THEN outcome[c].message
                                        ELSE outcome[c].cause.name))
            /\ classified' = [classified EXCEPT ![c].handled = TRUE]
    /\ UNCHANGED <<config, pc, args, timer, aborted, sent, response, bodyText, logs,
                   outcome, trace, invoked, settled>>

\* The predicates are asked of every error; the script handles the error of the
\* call it made.
ErrorNext ==
    \/ \E c \in Calls : Classify(c)
    \/ \E c \in MainCalls : handleError(c, "getWallet")

ErrorSpec == ErrorInit /\ [][ErrorNext]_vars

\* The timer fires unless it is cleared, and an aborted exchange rejects.
LiveSpec ==
    /\ Spec
    /\ \A c \in Calls : WF_vars(TimerFire(c)) /\ WF_vars(AbortReject(c))

(***************************************************************************)
(* The methods of KiteClient: each validates its argument, if it has one,   *)
(* calls request() through req when it passes, and makes its return value  *)
(* of what request() resolved with.                                        *)
(***************************************************************************)
Unreserved ==
    {"a", "b", "c", "d", "e", "f", "g", "h", "i", "j", "k", "l", "m", "n", "o", "p", "q",
     "r", "s", "t", "u", "v", "w", "x", "y", "z", "A", "B", "C", "D", "E", "F", "G", "H",
     "I", "J", "K", "L", "M", "N", "O", "P", "Q", "R", "S", "T", "U", "V", "W", "X", "Y",
     "Z", "-", "_", ".", "!", "~", "*", "'", "(", ")"} \cup Digits

\* The escape of one ASCII character that is not unreserved.
Escape(ch) ==
    CASE ch = " " -> "%20" [] ch = "#" -> "%23" [] ch = "$" -> "%24" [] ch = "%" -> "%25"
      [] ch = "&" -> "%26" [] ch = "+" -> "%2B" [] ch = "," -> "%2C" [] ch = "/" -> "%2F"
      [] ch = ":" -> "%3A" [] ch = ";" -> "%3B" [] ch = "=" -> "%3D" [] ch = "?" -> "%3F"
      [] ch = "@" -> "%40"

RECURSIVE encodeURIComponent(_)
encodeURIComponent(text) ==
    IF text = "" THEN ""
    ELSE (IF Ch(text, 1) \in Unreserved THEN Ch(text, 1) ELSE Escape(Ch(text, 1)))
            \o encodeURIComponent(SubSeq(text, 2, Len(text)))

\* !x || typeof x !== 'string'
NotAString(x) == ~Truthy(x) \/ x.t # "string"

\* transactionType !== undefined && ![0, 1, 2].includes(transactionType)
BadTransactionType(x) == x.t # "undefined" /\ ~(x.t = "number" /\ x.n \in {0, 1, 2})

TransactionTypeMessage == "transactionType must be 0, 1 (Legacy), or 2 (EIP-1559) if provided"

\* The object literal a method passes as body: the members keys read from params.
Pick(params, keys) == JObj([i \in 1..Len(keys) |-> KV(keys[i], GetProperty(params, keys[i]))])

\* A method whose validation passed calls req with these.
Call(method, path, body) ==
    [error |-> "", thrown |-> NoError, method |-> method, path |-> path, body |-> body]

\* A method whose validation failed throws a KiteApiError with this message.
Invalid(message) ==
    [error |-> message, thrown |-> NoError, method |-> "", path |-> "", body |-> JUndef]

\* A method that throws the error err before any validation.
Throws(err) == [error |-> "", thrown |-> err, method |-> "", path |-> "", body |-> JUndef]

\* What params.key throws where params is undefined or null.
NullishRead(params, key) ==
    [name |-> "TypeError",
     message |-> "Cannot read properties of " \o JsString(params)
                    \o " (reading '" \o key \o "')"]

\* A method whose first read of its params object is params.key: it throws where
\* params is undefined or null, and does what result says otherwise.
Reading(params, key, result) ==
    IF Nullish(params) THEN Throws(NullishRead(params, key)) ELSE result

createWallet(params) ==
    Reading(params, "userEmail", Call("POST", "/api/wallets", Pick(params, <<"userEmail">>)))

getWallet(walletId) ==
    IF NotAString(walletId) THEN Invalid("walletId is required and must be a string")
    ELSE Call("GET", "/api/wallets/" \o encodeURIComponent(walletId.s), JUndef)

getWalletsByUser(email) ==
    IF NotAString(email) THEN Invalid("email is required and must be a string")
    ELSE Call("GET", "/api/wallets/users/" \o encodeURIComponent(email.s) \o "/wallets", JUndef)

getUser(email) ==
    IF NotAString(email) THEN Invalid("email is required and must be a string")
    ELSE Call("GET", "/api/users/" \o encodeURIComponent(email.s), JUndef)

getNonce(params) ==
    Reading(params, "walletId",
        IF ~Truthy(GetProperty(params, "walletId")) \/ ~Truthy(GetProperty(params, "rpcUrl"))
        THEN Invalid("walletId and rpcUrl are required")
        ELSE Call("POST", "/api/transactions/nonce", Pick(params, <<"walletId", "rpcUrl">>)))

getGasPrices(params) ==
    Reading(params, "rpcUrl",
        IF ~Truthy(GetProperty(params, "rpcUrl")) THEN Invalid("rpcUrl is required")
        ELSE Call("POST", "/api/transactions/gas-prices",
                  Pick(params, <<"rpcUrl", "transactionType", "transaction">>)))

getGasPrice(params) ==
    Reading(params, "rpcUrl",
        IF ~Truthy(GetProperty(params, "rpcUrl")) THEN Invalid("rpcUrl is required")
        ELSE Call("POST", "/api/transactions/gas-price",
                  Pick(params, <<"rpcUrl", "transactionType", "transaction">>)))

createNativeTransfer(params) ==
    Reading(params, "walletId",
        IF \/ ~Truthy(GetProperty(params, "walletId"))
           \/ ~Truthy(GetProperty(params, "rpcUrl"))
           \/ ~Truthy(GetProperty(params, "to"))
        THEN Invalid("walletId, rpcUrl, and to are required")
        ELSE IF BadTransactionType(GetProperty(params, "transactionType"))
        THEN Invalid(TransactionTypeMessage)
        ELSE Call("POST", "/api/transactions/native",
                  Pick(params, <<"walletId", "rpcUrl", "to", "value", "tokenAddress",
                                 "transactionType", "gasData", "nonce">>)))

createERC20Transfer(params) ==
    Reading(params, "walletId",
        IF \/ ~Truthy(GetProperty(params, "walletId"))
           \/ ~Truthy(GetProperty(params, "rpcUrl"))
           \/ ~Truthy(GetProperty(params, "tokenAddress"))
           \/ ~Truthy(GetProperty(params, "to"))
           \/ Nullish(GetProperty(params, "amount"))
        THEN Invalid("walletId, rpcUrl, tokenAddress, to, and amount are required")
        ELSE IF BadTransactionType(GetProperty(params, "transactionType"))
        THEN Invalid(TransactionTypeMessage)
        ELSE Call("POST", "/api/transactions/erc20",
                  Pick(params, <<"walletId", "rpcUrl", "tokenAddress", "to", "amount",
                                 "transactionType", "gasData", "nonce">>)))

signTransaction(params) ==
    Reading(params, "walletId",
        IF NotAString(GetProperty(params, "walletId"))
        THEN Invalid("walletId is required and must be a string")
        ELSE IF \/ NotAString(GetProperty(params, "unsignedRaw"))
                \/ ~StartsWith(GetProperty(params, "unsignedRaw").s, 1, "0x")
        THEN Invalid("unsignedRaw is required and must be a valid hex string starting with 0x")
        ELSE Call("POST", "/api/transactions/sign",
                  Pick(params, <<"walletId", "unsignedRaw", "transaction">>)))

broadcastTransaction(params) ==
    Reading(params, "signedHex",
        IF NotAString(GetProperty(params, "signedHex"))
        THEN Invalid("signedHex is required and must be a string")
        ELSE IF NotAString(GetProperty(params, "rpcUrl"))
        THEN Invalid("rpcUrl is required and must be a string")
        ELSE Call("POST", "/api/transactions/broadcast", Pick(params, <<"signedHex", "rpcUrl">>)))

\* (data as any).data ?? data, the last statement of getWallet and getUser.
DataOrSelf(data) ==
    IF Nullish(GetProperty(data, "data")) THEN data ELSE GetProperty(data, "data")

\* What listWallets (key "wallets") and listUsers (key "users") return for the
\* value data that request resolved with: the array data[key] or data.data[key]
\* with the count next to it, or an empty list.
ListResult(data, key) ==
    IF GetProperty(data, key).t = "array"
    THEN JObj(<<KV(key, GetProperty(data, key)), KV("count", GetProperty(data, "count"))>>)
    ELSE IF GetProperty(GetProperty(data, "data"), key).t = "array"
    THEN JObj(<<KV(key, GetProperty(GetProperty(data, "data"), key)),
                KV("count", GetProperty(GetProperty(data, "data"), "count"))>>)
    ELSE JObj(<<KV(key, JArr(<<>>)), KV("count", JNum(0))>>)

listWallets(data) == ListResult(data, "wallets")

listUsers(data) == ListResult(data, "users")

\* The methods that take no input.
PlainMethods == {"healthCheck", "listWallets", "listUsers"}

MethodNames ==
    {"createWallet", "getWallet", "getWalletsByUser", "getUser", "getNonce",
     "getGasPrices", "getGasPrice", "createNativeTransfer", "createERC20Transfer",
     "signTransaction", "broadcastTransaction"} \cup PlainMethods

\* What the method name does when called with the argument arg, up to its call
\* of req.
Method(name, arg) ==
    CASE name = "healthCheck" -> Call("GET", "/health", JUndef)
      [] name = "listWallets" -> Call("GET", "/api/wallets", JUndef)
      [] name = "listUsers" -> Call("GET", "/api/users", JUndef)
      [] name = "createWallet" -> createWallet(arg)
      [] name = "getWallet" -> getWallet(arg)
      [] name = "getWalletsByUser" -> getWalletsByUser(arg)
      [] name = "getUser" -> getUser(arg)
      [] name = "getNonce" -> getNonce(arg)
      [] name = "getGasPrices" -> getGasPrices(arg)
      [] name = "getGasPrice" -> getGasPrice(arg)
      [] name = "createNativeTransfer" -> createNativeTransfer(arg)
      [] name = "createERC20Transfer" -> createERC20Transfer(arg)
      [] name = "signTransaction" -> signTransaction(arg)
      [] name = "broadcastTransaction" -> broadcastTransaction(arg)

\* What the method name returns for the value data that request resolved with.
MethodReturn(name, data) ==
    CASE name = "healthCheck" -> healthCheck(data)
      [] name = "listWallets" -> listWallets(data)
      [] name = "listUsers" -> listUsers(data)
      [] name \in {"getWallet", "getUser"} -> DataOrSelf(data)
      [] OTHER -> data

\* The methods that take one string; the others take a params object or nothing.
StringMethods == {"getWallet", "getWalletsByUser", "getUser"}

\* The inputs of each method that the API reference table of the README calls
\* required; a method taking one string has that string for its only input.
Required(name) ==
    CASE name = "createWallet" -> {"userEmail"}
      [] name = "getNonce" -> {"walletId", "rpcUrl"}
      [] name \in {"getGasPrices", "getGasPrice"} -> {"rpcUrl"}
      [] name = "createNativeTransfer" -> {"walletId", "rpcUrl", "to"}
      [] name = "createERC20Transfer" -> {"walletId", "rpcUrl", "tokenAddress", "to", "amount"}
      [] name = "signTransaction" -> {"walletId", "unsignedRaw"}
      [] name = "broadcastTransaction" -> {"signedHex", "rpcUrl"}
      [] OTHER -> {}

\* An argument with which the method name passes its validation.
ValidArgument(name) ==
    CASE name = "createWallet" -> JObj(<<KV("userEmail", JStr("a@b.io"))>>)
      [] name = "getWallet" -> JStr("w/1")
      [] name \in {"getWalletsByUser", "getUser"} -> JStr("a@b.io")
      [] name = "getNonce" ->
            JObj(<<KV("walletId", JStr("w1")), KV("rpcUrl", JStr("http://rpc.test"))>>)
      [] name \in {"getGasPrices", "getGasPrice"} ->
            JObj(<<KV("rpcUrl", JStr("http://rpc.test")), KV("transactionType", JNum(2))>>)
      [] name = "createNativeTransfer" ->
            JObj(<<KV("walletId", JStr("w1")), KV("rpcUrl", JStr("http://rpc.test")),
                   KV("to", JStr("0xabc")), KV("transactionType", JNum(0))>>)
      [] name = "createERC20Transfer" ->
            JObj(<<KV("walletId", JStr("w1")), KV("rpcUrl", JStr("http://rpc.test")),
                   KV("tokenAddress", JStr("0xdef")), KV("to", JStr("0xabc")),
                   KV("amount", JStr("10"))>>)
      [] name = "signTransaction" ->
            JObj(<<KV("walletId", JStr("w1")), KV("unsignedRaw", JStr("0x02f8"))>>)
      [] name = "broadcastTransaction" ->
            JObj(<<KV("signedHex", JStr("0x02f8")), KV("rpcUrl", JStr("http://rpc.test"))>>)

\* params without the member key, and params with the member key set to val.
Without(params, key) ==
    LET Other(member) == member.k # key IN JObj(SelectSeq(params.kv, Other))

With(params, key, val) == JObj(SetProperty(params.kv, key, val))

\* The arguments a method is called with: the valid one; the valid one with one
\* required input left out or empty; a transactionType that is none of 0, 1, 2;
\* an unsignedRaw without the 0x prefix; no params object at all.
Arguments(name) ==
    IF name \in PlainMethods THEN {JUndef}
    ELSE IF name \in StringMethods
    THEN {ValidArgument(name), JUndef, JStr("")}
    ELSE {ValidArgument(name), JUndef}
            \cup {Without(ValidArgument(name), key) : key \in Required(name)}
            \cup {With(ValidArgument(name), key, JStr("")) : key \in Required(name)}
            \cup (IF name \in {"createNativeTransfer", "createERC20Transfer"}
                  THEN {With(ValidArgument(name), "transactionType", JNum(3))}
                  ELSE {})
            \cup (IF name = "signTransaction"
                  THEN {With(ValidArgument(name), "unsignedRaw", JStr("02f8"))}
                  ELSE {})

\* Call c is the method name called with arg: lines 110-379 up to the await of
\* req (a method that throws before it has settled by that).
Invoke(c, name, arg) ==
    /\ pc[c] = "idle"
    /\ invoked' = [invoked EXCEPT ![c] = [name |-> name, arg |-> arg]]
    /\ \E m \in {Method(name, arg)} :
            IF m.thrown # NoError \/ m.error # ""
            THEN /\ outcome' = [outcome EXCEPT ![c] =
                                    IF m.thrown # NoError THEN Uncaught(m.thrown)
                                    ELSE KiteApiError(JNum(400), m.error, JUndef)]
                 /\ pc' = [pc EXCEPT ![c] = "done"]
                 /\ Steps(c, <<"throw">>)
                 /\ UNCHANGED <<config, console, args, timer, aborted, sent, response,
                                bodyText, logs, classified, settled>>
            ELSE Request(c, m.method, m.path, m.body)

\* The method that awaited request() in call c is resumed with what request()
\* settled with: a value it makes its return value of, an error it throws on.
Resume(c) ==
    /\ pc[c] = "settled"
    /\ outcome' = [outcome EXCEPT ![c] =
                      IF settled[c].kind = "return"
                      THEN Returned(MethodReturn(invoked[c].name, settled[c].value))
                      ELSE settled[c]]
    /\ pc' = [pc EXCEPT ![c] = "done"]
    /\ UNCHANGED <<config, console, args, timer, aborted, sent, response, bodyText, logs,
                   trace, classified, invoked, settled>>

\* One method call on one client, followed until the method has returned or
\* thrown.
ClientNext ==
    \E c \in MainCalls :
        \/ \E name \in MethodNames : \E arg \in Arguments(name) : Invoke(c, name, arg)
        \/ \E status \in ConcStatuses : FetchResolve(c, status, "Not Found")
        \/ \E err \in ConcFailures : FetchReject(c, err)
        \/ \E text \in ConcTexts : TextResolve(c, text)
        \/ \E err \in ConcFailures : TextReject(c, err)
        \/ TimerFire(c)
        \/ AbortReject(c)
        \/ Resume(c)

ClientSpec == ConcInit /\ [][ClientNext]_vars

(***************************************************************************)
(* Properties.                                                             *)
(***************************************************************************)
Done(c) == pc[c] = "done"

\* The call received a response and read its whole body text.
Answered(c) == Done(c) /\ response[c].received /\ bodyText[c].read

Success2xx(c) == response[c].status \in 200..299

\* The parsed body of an answered call, by JSON.parse itself.
Parsed(c) == JsonParse(bodyText[c].text)

IsObject(v) == v.t = "object"

Contains(text, part) ==
    \E i \in 1..(Len(text) - Len(part) + 1) : SubSeq(text, i, i + Len(part) - 1) = part

\* C1: every finished call of request ended in exactly one of: a payload returned,
\* a KiteApiError thrown, a KiteNetworkError thrown; no other error leaves request.
C1_ThreeOutcomes ==
    \A c \in Calls :
        Done(c) => outcome[c].kind \in {"return", "KiteApiError", "KiteNetworkError"}

\* C2: a response with a status outside 200..299 whose body was read makes request
\* throw a KiteApiError whose statusCode is the HTTP status, whatever the body is.
C2_NonSuccessStatus ==
    \A c \in Calls :
        Answered(c) /\ ~Success2xx(c) =>
            /\ outcome[c].kind = "KiteApiError"
            /\ outcome[c].statusCode = JNum(response[c].status)

C2_Witness ==
    \E c \in Calls :
        /\ Answered(c)
        /\ response[c].status = 500
        /\ bodyText[c].text = "{\"success\":false,\"status\":404,\"error\":\"Wallet not found\"}"
        /\ outcome[c].kind = "KiteApiError"
        /\ outcome[c].statusCode = JNum(500)

\* An answered 2xx call whose parsed envelope has success === false.
DeclaredFailure(c) ==
    /\ Answered(c)
    /\ Success2xx(c)
    /\ Parsed(c).ok
    /\ IsObject(Parsed(c).v)
    /\ \E i \in 1..Len(Parsed(c).v.kv) :
            Parsed(c).v.kv[i] = KV("success", JBool(FALSE))

\* The value of the member key of the parsed envelope of call c.
Member(c, key) ==
    LET kv == Parsed(c).v.kv IN kv[CHOOSE i \in 1..Len(kv) : kv[i].k = key].v

HasMember(c, key) ==
    \E i \in 1..Len(Parsed(c).v.kv) : Parsed(c).v.kv[i].k = key

\* C3 as stated: for a 2xx response whose envelope has success === false, request
\* throws a KiteApiError whose statusCode is the envelope's status field when that
\* field is present, and the HTTP status otherwise.
C3_StatusWhenPresent ==
    \A c \in Calls :
        DeclaredFailure(c) =>
            /\ outcome[c].kind = "KiteApiError"
            /\ outcome[c].statusCode =
                    IF HasMember(c, "status") THEN Member(c, "status")
                    ELSE JNum(response[c].status)

\* C3 amended: for a 2xx response whose envelope has success === false, request
\* throws a KiteApiError whose statusCode is the envelope's status field when that
\* field is present and not null, and the HTTP status otherwise.
C3_StatusWhenNotNull ==
    \A c \in Calls :
        DeclaredFailure(c) =>
            /\ outcome[c].kind = "KiteApiError"
            /\ outcome[c].statusCode =
                    IF HasMember(c, "status") /\ Member(c, "status") # JNull
                    THEN Member(c, "status")
                    ELSE JNum(response[c].status)

C3_Witness ==
    \E c \in Calls :
        /\ DeclaredFailure(c)
        /\ response[c].status = 200
        /\ HasMember(c, "status")
        /\ Member(c, "status") = JNum(404)
        /\ outcome[c].statusCode = JNum(404)

\* C4: request resolves with a payload only if a response was received whose status
\* is in 200..299 and whose parsed envelope does not have success === false.
C4_ResolvesOnlyOnSuccess ==
    \A c \in Calls :
        Done(c) /\ outcome[c].kind = "return" =>
            /\ Answered(c)
            /\ Success2xx(c)
            /\ ~DeclaredFailure(c)

C4_Witness ==
    \E c \in Calls :
        /\ Done(c)
        /\ outcome[c].kind = "return"
        /\ response[c].status = 299
        /\ bodyText[c].text = "{\"success\":\"false\",\"data\":1}"

\* An answered 2xx call whose body parses to exactly {success:true, status:200, data:X}.
SuccessEnvelope(c) ==
    /\ Answered(c)
    /\ Success2xx(c)
    /\ Parsed(c).ok
    /\ IsObject(Parsed(c).v)
    /\ Len(Parsed(c).v.kv) = 3
    /\ Parsed(c).v.kv[1] = KV("success", JBool(TRUE))
    /\ Parsed(c).v.kv[2] = KV("status", JNum(200))
    /\ Parsed(c).v.kv[3].k = "data"

\* C5 as stated: for a 2xx response whose body parses to {success:true, status:200,
\* data:X}, request resolves with exactly X, for every JSON value X, null included.
C5_ReturnsData ==
    \A c \in Calls :
        SuccessEnvelope(c) => outcome[c] = Returned(Member(c, "data"))

\* C5 amended: for such a response request resolves with exactly X for every JSON
\* value X other than null (false, 0, the empty string, arrays and nested objects
\* included), and with the whole parsed envelope when X is null.
C5_ReturnsDataUnlessNull ==
    \A c \in Calls :
        SuccessEnvelope(c) =>
            outcome[c] = Returned(IF Member(c, "data") = JNull THEN Parsed(c).v
                                  ELSE Member(c, "data"))

C5_Witness ==
    \E c \in Calls :
        /\ SuccessEnvelope(c)
        /\ Member(c, "data") = JNum(0)
        /\ outcome[c] = Returned(JNum(0))

\* C6: for a 2xx response whose body parses to an object with neither a data field
\* nor a success field, request resolves with that parsed object unchanged.
C6_BareObjectUnchanged ==
    \A c \in Calls :
        /\ Answered(c)
        /\ Success2xx(c)
        /\ Parsed(c).ok
        /\ IsObject(Parsed(c).v)
        /\ ~HasMember(c, "data")
        /\ ~HasMember(c, "success")
        => outcome[c] = Returned(Parsed(c).v)

C6_Witness ==
    \E c \in Calls :
        /\ Answered(c)
        /\ response[c].status = 200
        /\ bodyText[c].text = "{\"walletId\":\"w1\",\"address\":\"0xabc\",\"tags\":[]}"
        /\ outcome[c] =
              Returned(JObj(<<KV("walletId", JStr("w1")), KV("address", JStr("0xabc")),
                              KV("tags", JArr(<<>>))>>))

\* C7: a body that is not valid JSON never makes request fail by the parse failure:
\* with a 2xx status the call resolves with an empty object, with another status it
\* throws the KiteApiError of that status with raw set to the response text.
C7_MalformedBody ==
    \A c \in Calls :
        Answered(c) /\ ~Parsed(c).ok =>
            IF Success2xx(c)
            THEN outcome[c] = Returned(EmptyObject)
            ELSE /\ outcome[c].kind = "KiteApiError"
                 /\ outcome[c].statusCode = JNum(response[c].status)
                 /\ outcome[c].raw = JStr(bodyText[c].text)

C7_Witness ==
    \E c \in Calls :
        /\ Answered(c)
        /\ response[c].status = 200
        /\ bodyText[c].text = "not json{"
        /\ outcome[c] = Returned(EmptyObject)

InFlight(c) == pc[c] \in {"fetching", "reading"}

\* C8: every call of request eventually completes, and a call whose exchange was
\* still pending when the timer fired and aborted it throws a KiteNetworkError whose
\* message contains the configured timeout value.
C8_TimeoutCompletes ==
    /\ \A c \in Calls : InFlight(c) ~> Done(c)
    /\ [][\A c \in Calls :
            InFlight(c) /\ timer[c] = "fired" /\ aborted[c] /\ Done(c)' =>
                /\ outcome'[c].kind = "KiteNetworkError"
                /\ Contains(outcome'[c].message, ToString(config.timeout))]_vars

C8_Witness ==
    \E c \in Calls :
        /\ Done(c)
        /\ timer[c] = "fired"
        /\ ~response[c].received
        /\ outcome[c].kind = "KiteNetworkError"
        /\ Contains(outcome[c].message, ToString(config.timeout))
        /\ Contains(outcome[c].message, "timed out")

\* C9: in no reachable state is a call finished while its timer is still pending.
C9_NoPendingTimerAfterExit ==
    \A c \in Calls : Done(c) => timer[c] \in {"cleared", "fired"}

\* C10: within one call the exchange is started at most once, and a call that threw
\* a KiteApiError or a KiteNetworkError started exactly one.
C10_NoRetry ==
    \A c \in Calls :
        /\ Len(sent[c]) <= 1
        /\ Done(c) /\ outcome[c].kind \in {"KiteApiError", "KiteNetworkError"} =>
                Len(sent[c]) = 1

C10_Witness ==
    \E c \in Calls :
        /\ Done(c)
        /\ outcome[c].kind = "KiteNetworkError"
        /\ outcome[c].cause.name = "TypeError"
        /\ Len(sent[c]) = 1

\* The console shows the message of log call i of call c.
Emitted(c, i) ==
    \E j \in 1..Len(console) :
        console[j].line = "[KiteSDK] " \o logs[c][i].message

\* C11: a message given to the log sink of the client is written to the console
\* exactly when the rank of its severity is at or above the rank of the configured
\* logLevel, in the order debug < info < warn < error.
C11_EmitsAtOrAboveLevel ==
    \A c \in Calls :
        \A i \in 1..Len(logs[c]) :
            Emitted(c, i) <=> LOG_LEVELS(logs[c][i].level) >= LOG_LEVELS(config.logLevel)

\* C12 as stated: every KiteApiError thrown by request carries the payload in raw:
\* for a non-2xx response raw is the parsed body when the body parsed and the
\* response text otherwise; for a 2xx envelope with success === false raw is the
\* whole parsed envelope, as JSON.parse gave it.
C12_RawParsedOrText ==
    \A c \in Calls :
        Answered(c) /\ outcome[c].kind = "KiteApiError" =>
            outcome[c].raw =
                IF Parsed(c).ok THEN Parsed(c).v ELSE JStr(bodyText[c].text)

\* C12 amended: every KiteApiError thrown by request carries the payload in raw:
\* for a non-2xx response raw is the parsed body when the body parsed to a value
\* other than null, and the response text otherwise (also for the body "null");
\* for a 2xx envelope with success === false raw is the whole parsed envelope, as
\* JSON.parse gave it.
C12_RawParsedUnlessNull ==
    \A c \in Calls :
        Answered(c) /\ outcome[c].kind = "KiteApiError" =>
            outcome[c].raw =
                IF Parsed(c).ok /\ ~Nullish(Parsed(c).v)
                THEN Parsed(c).v
                ELSE JStr(bodyText[c].text)

\* A 404 whose message came from the error field keeps the whole envelope in raw.
C12_Witness ==
    \E c \in Calls :
        /\ Answered(c)
        /\ response[c].status = 404
        /\ bodyText[c].text = "{\"success\":false,\"status\":404,\"error\":\"Wallet not found\"}"
        /\ outcome[c].kind = "KiteApiError"
        /\ outcome[c].message = "Wallet not found"
        /\ outcome[c].raw =
                JObj(<<KV("success", JBool(FALSE)), KV("status", JNum(404)),
                       KV("error", JStr("Wallet not found"))>>)

\* C13: the predicates of a KiteApiError depend on its statusCode only: for a
\* numeric statusCode isAuthError is true exactly for 401 and 403, isNotFound
\* exactly for 404, isClientError exactly for 400..499, isServerError exactly from
\* 500 on; and two errors with the same statusCode get the same four answers
\* whatever their message, code and raw are.  Where handleError has handled such
\* an error too, it warned of the API key exactly for 401 and 403 and of a missing
\* resource exactly for 404.
C13_StatusCodePredicates ==
    \A c \in Calls :
        classified[c].asked = Predicates =>
            /\ outcome[c].statusCode.t = "number" =>
                    LET n == outcome[c].statusCode.n IN
                    /\ classified[c].isAuthError <=> n \in {401, 403}
                    /\ classified[c].isNotFound <=> n = 404
                    /\ classified[c].isClientError <=> (400 <= n /\ n < 500)
                    /\ classified[c].isServerError <=> n >= 500
            /\ \A d \in Calls :
                    (/\ classified[d].asked = Predicates
                     /\ outcome[d].statusCode = outcome[c].statusCode)
                        => /\ classified[d].isClientError = classified[c].isClientError
                           /\ classified[d].isServerError = classified[c].isServerError
                           /\ classified[d].isAuthError = classified[c].isAuthError
                           /\ classified[d].isNotFound = classified[c].isNotFound
            /\ (classified[c].handled /\ outcome[c].statusCode.t = "number") =>
                    LET n == outcome[c].statusCode.n
                        Warned(msg) == \E j \in 1..Len(console) :
                                          console[j].line = LevelPrefix("warn") \o " [warn] " \o msg
                    IN  /\ Warned("Check KITE_API_KEY") <=> n \in {401, 403}
                        /\ Warned("Resource not found") <=> n = 404

\* Two 401 errors that differ in message, code and raw, both classified, one of
\* them handled by handleError, which wrote its two lines.
C13_Witness ==
    \E c, d \in Calls :
        /\ classified[c].asked = Predicates /\ classified[d].asked = Predicates
        /\ outcome[c].statusCode = JNum(401) /\ outcome[d].statusCode = JNum(401)
        /\ outcome[c].message # outcome[d].message
        /\ outcome[c].code # outcome[d].code
        /\ outcome[c].raw # outcome[d].raw
        /\ classified[c].isAuthError /\ classified[c].isClientError
        /\ ~classified[d].isNotFound /\ ~classified[d].isServerError
        /\ classified[c].handled
        /\ Len(console) = 2

\* Calls c and d were made with the same arguments and got the same from the
\* transport: the same response and body text, or the same failure.
SameExchange(c, d) ==
    /\ Done(c) /\ Done(d)
    /\ args[c] = args[d]
    /\ response[c] = response[d]
    /\ bodyText[c] = bodyText[d]
    /\ outcome[c].cause = outcome[d].cause

\* C14: two calls of request on one client with the same method, path and body
\* that get the same from the transport end the same way: the same value returned,
\* or an error of the same kind with the same statusCode, message and raw,
\* whatever other calls ran before, between or after them.
C14_Deterministic ==
    \A c, d \in Calls : SameExchange(c, d) => outcome[c] = outcome[d]

\* Two calls with the same exchange, both failed by the transport, with the debug
\* lines of both on the console of the client they share.
C14_Witness ==
    \E c, d \in Calls :
        /\ c # d
        /\ SameExchange(c, d)
        /\ outcome[c].kind = "KiteNetworkError"
        /\ outcome[c].message = "fetch failed"
        /\ outcome[d].message = "fetch failed"
        /\ Len(console) = 2

\* C15: every call has its own timer and its own abort controller: a step of one
\* call (its timer firing, its exchange settling, its return or throw) leaves the
\* timer, the abort signal, the position and the outcome of every other call as
\* they were.
C15_IndependentTimers ==
    [][\A c \in Calls :
            (timer'[c] # timer[c] \/ aborted'[c] # aborted[c] \/ pc'[c] # pc[c]) =>
                \A d \in Calls \ {c} :
                    /\ timer'[d] = timer[d]
                    /\ aborted'[d] = aborted[d]
                    /\ pc'[d] = pc[d]
                    /\ outcome'[d] = outcome[d]]_vars

\* Two calls in flight at once: the timer of one has fired and aborted it, the
\* other is reading its response with its timer pending and its signal not aborted.
C15_Witness ==
    \E c, d \in Calls :
        /\ c # d
        /\ pc[c] = "fetching" /\ timer[c] = "fired" /\ aborted[c]
        /\ pc[d] = "reading" /\ timer[d] = "pending" /\ ~aborted[d]

\* C16: once a response was received the timer is cancelled before the body is
\* read, so a call that received a response never ends in a KiteNetworkError.
C16_NoNetworkErrorAfterResponse ==
    \A c \in Calls :
        /\ pc[c] = "reading" => timer[c] = "cleared"
        /\ Done(c) /\ response[c].received => outcome[c].kind # "KiteNetworkError"

\* C17: a KiteNetworkError has the message 'Request timed out after <timeout>ms'
\* exactly when the timer of the call fired before the exchange settled; for any
\* other failure the message is the failure's own message, or 'Network request
\* failed' when it has none; the failure is kept in cause in both cases.
C17_TimeoutMessageIffTimerFired ==
    \A c \in Calls :
        outcome[c].kind = "KiteNetworkError" =>
            /\ outcome[c].message =
                    "Request timed out after " \o ToString(config.timeout) \o "ms"
                <=> timer[c] = "fired"
            /\ timer[c] = "fired" => outcome[c].cause = AbortError
            /\ timer[c] # "fired" =>
                    /\ outcome[c].cause \in TransportFailures
                    /\ outcome[c].message =
                            IF outcome[c].cause.message = "" THEN "Network request failed"
                            ELSE outcome[c].cause.message

\* A call of a client with the default timeout whose timer fired while the
\* exchange was pending.
C17_Witness ==
    \E c \in Calls :
        /\ Done(c)
        /\ config.timeout = DefaultTimeout
        /\ timer[c] = "fired"
        /\ outcome[c].kind = "KiteNetworkError"
        /\ outcome[c].message = "Request timed out after 30000ms"
        /\ outcome[c].cause = AbortError

\* The error member of the parsed body of call c, undefined where there is none.
ErrorMember(c) ==
    IF Parsed(c).ok /\ IsObject(Parsed(c).v) /\ HasMember(c, "error")
    THEN Member(c, "error")
    ELSE JUndef

\* The message of a non-2xx response that has no usable error member.
StatusMessage(c) ==
    IF response[c].statusText # "" THEN response[c].statusText
    ELSE "Request failed with status " \o ToString(response[c].status)

\* C18 as stated: for a non-2xx response the message of the KiteApiError is the
\* error member of the envelope whenever it is a string (the empty string too),
\* otherwise the status text, otherwise 'Request failed with status <code>'.
C18_ErrorStringFirst ==
    \A c \in Calls :
        Answered(c) /\ ~Success2xx(c) =>
            outcome[c].message =
                IF ErrorMember(c).t = "string" THEN ErrorMember(c).s ELSE StatusMessage(c)

\* C18 amended: for a non-2xx response the message of the KiteApiError is the
\* error member of the envelope whenever it is a non-empty string, otherwise (also
\* for an empty error string) the status text when it is not empty, otherwise
\* 'Request failed with status <code>'.
C18_NonEmptyErrorStringFirst ==
    \A c \in Calls :
        Answered(c) /\ ~Success2xx(c) =>
            outcome[c].message =
                IF ErrorMember(c).t = "string" /\ ErrorMember(c).s # ""
                THEN ErrorMember(c).s
                ELSE StatusMessage(c)

\* A 404 with the status text 'Not Found' and an empty error string.
C18_Witness ==
    \E c \in Calls :
        /\ Answered(c)
        /\ response[c].status = 404
        /\ response[c].statusText = "Not Found"
        /\ bodyText[c].text = "{\"error\":\"\"}"
        /\ outcome[c].kind = "KiteApiError"
        /\ outcome[c].message = "Not Found"

\* The number of log calls of call c made with the severity level.
LogCalls(c, level) == Cardinality({i \in 1..Len(logs[c]) : logs[c][i].level = level})

\* The last n steps of call c.
LastSteps(c, n) == SubSeq(trace[c], Len(trace[c]) - n + 1, Len(trace[c]))

\* C19: the log calls of request are ordered with its other steps: the timer is
\* started and method and URL are logged at debug severity before the exchange is
\* sent; a KiteNetworkError is thrown after the timer was cancelled and one log
\* call of error severity, the only one of the call; a KiteApiError is thrown right
\* after one log call of warn severity, the only one of the call, whose message
\* holds the HTTP status and the path; a call that returns makes no log call of
\* warn or error severity.
C19_LogOrder ==
    \A c \in Calls :
        /\ Len(sent[c]) > 0 =>
                /\ SubSeq(trace[c], 1, 3) = <<"setTimeout", "log", "fetch">>
                /\ logs[c][1] = [level |-> "debug",
                                 message |-> args[c].method \o " http://kite.test"
                                                \o args[c].path]
        /\ outcome[c].kind = "KiteNetworkError" =>
                /\ LastSteps(c, 3) = <<"clearTimeout", "log", "throw">>
                /\ timer[c] \in {"cleared", "fired"}
                /\ logs[c][Len(logs[c])].level = "error"
                /\ LogCalls(c, "error") = 1 /\ LogCalls(c, "warn") = 0
        /\ outcome[c].kind = "KiteApiError" =>
                /\ LastSteps(c, 2) = <<"log", "throw">>
                /\ logs[c][Len(logs[c])].level = "warn"
                /\ Contains(logs[c][Len(logs[c])].message,
                            ToString(response[c].status) \o " " \o args[c].path)
                /\ LogCalls(c, "warn") = 1 /\ LogCalls(c, "error") = 0
        /\ outcome[c].kind = "return" =>
                /\ LastSteps(c, 1) = <<"return">>
                /\ LogCalls(c, "warn") = 0 /\ LogCalls(c, "error") = 0

\* A 404 on /health: timer, debug log, exchange, body read, timer cancelled, warn
\* log, throw.
C19_Witness ==
    \E c \in Calls :
        /\ outcome[c].kind = "KiteApiError"
        /\ trace[c] = <<"setTimeout", "log", "fetch", "text", "clearTimeout", "log", "throw">>
        /\ logs[c] = <<[level |-> "debug", message |-> "GET http://kite.test/health"],
                       [level |-> "warn", message |-> "404 /health: Not Found"]>>

\* C20: the request handed to the transport has a body exactly when the call was
\* given a body other than undefined and null and its method is not GET, and it
\* has the X-API-Key header of the client whether or not it has a body.
C20_BodyOnlyWhenPassedAndNotGet ==
    \A c \in Calls :
        \A i \in 1..Len(sent[c]) :
            /\ sent[c][i].hasBody <=>
                    /\ args[c].body \notin {JUndef, JNull}
                    /\ args[c].method # "GET"
            /\ sent[c][i].apiKey = "key-1"
            /\ sent[c][i].method = args[c].method

\* A GET given a body is handed to the transport without it and with the key.
C20_Witness ==
    \E c \in Calls :
        /\ Len(sent[c]) = 1
        /\ args[c].method = "GET"
        /\ args[c].body = GasPricesBody
        /\ ~sent[c][1].hasBody
        /\ sent[c][1].apiKey = "key-1"

\* C22: request never resolves with null or undefined: for a 2xx response that does
\* not declare failure the value is the data member of the parsed envelope when
\* that is not null, else the whole parsed body, else, for a body that does not
\* parse or is the literal null, an empty object; so healthCheck returns what
\* request gave it and never its 'unknown' object.
C22_NeverNullish ==
    \A c \in Calls :
        outcome[c].kind = "return" =>
            /\ outcome[c].value \notin {JNull, JUndef}
            /\ Answered(c) /\ Success2xx(c) /\ ~DeclaredFailure(c)
            /\ outcome[c].value =
                    IF Parsed(c).ok /\ IsObject(Parsed(c).v) /\ HasMember(c, "data")
                        /\ Member(c, "data") # JNull
                    THEN Member(c, "data")
                    ELSE IF Parsed(c).ok /\ Parsed(c).v # JNull THEN Parsed(c).v
                    ELSE EmptyObject
            /\ healthCheck(outcome[c].value) = outcome[c].value
            /\ healthCheck(outcome[c].value) # UnknownHealth

\* GET /health answered 200 with the body null: request resolves with {}.
C22_Witness ==
    \E c \in Calls :
        /\ Answered(c)
        /\ args[c].method = "GET" /\ args[c].path = "/health"
        /\ response[c].status = 200
        /\ bodyText[c].text = "null"
        /\ outcome[c].kind = "return"
        /\ outcome[c].value = EmptyObject
        /\ healthCheck(outcome[c].value) = EmptyObject

\* The value of the required input key in the argument of call c.
Input(c, key) ==
    IF invoked[c].name \in StringMethods THEN invoked[c].arg
    ELSE GetProperty(invoked[c].arg, key)

\* Call c was made with a required input missing or empty, a transactionType
\* that is none of 0, 1, 2, or an unsignedRaw that does not start with 0x.
InvalidInputs(c) ==
    \/ invoked[c].name \in StringMethods /\ invoked[c].arg \in {JUndef, JStr("")}
    \/ \E key \in Required(invoked[c].name) : Input(c, key) \in {JUndef, JStr("")}
    \/ /\ invoked[c].name \in {"createNativeTransfer", "createERC20Transfer"}
       /\ HasProperty(invoked[c].arg, "transactionType")
       /\ GetProperty(invoked[c].arg, "transactionType") \notin {JNum(0), JNum(1), JNum(2)}
    \/ /\ invoked[c].name = "signTransaction"
       /\ SubSeq(GetProperty(invoked[c].arg, "unsignedRaw").s, 1, 2) # "0x"

\* C21: a call of a KiteClient method that has required inputs, made with one of
\* them missing or empty, with a transactionType outside {0, 1, 2} or with an
\* unsignedRaw that does not start with '0x', throws a KiteApiError with statusCode
\* 400 and hands no request to the transport.
C21_InvalidInputsThrow400 ==
    \A c \in Calls :
        invoked[c].name # "" /\ InvalidInputs(c) =>
            /\ outcome[c].kind = "KiteApiError"
            /\ outcome[c].statusCode = JNum(400)
            /\ sent[c] = <<>>

====
